---- MODULE Spec2Model ----
(***************************************************************************)
(* windowmanager platform stub: the WindowRect record and log_initialize.  *)
(*                                                                         *)
(*   src/src/platform/native/window_controller_stub.h    WindowRect, decl  *)
(*   src/src/platform/native/window_controller_stub.cpp  log_initialize    *)
(*                                                                         *)
(* log_initialize is one statement,                                        *)
(*   std::cout << "Initializing ...: " << platform_name << std::endl;      *)
(* that is four operations on the shared stream, in this order: insert the *)
(* prefix, insert the C string platform_name, put the line terminator,     *)
(* flush.  Each is one step of the calling thread.  The stream is std::cout*)
(* as the code finds it: default flags, no exception mask, buffered above  *)
(* the device.                                                             *)
(***************************************************************************)
EXTENDS Integers, Sequences, FiniteSets, TLC

VARIABLES
  pc,             \* per thread: where it is in log_initialize
  platform_name,  \* per thread: the parameter, Null or the address of a caller text
  callerText,     \* per thread: the caller's own text, which platform_name may point to
  out,            \* every character std::cout has accepted, in order
  written,        \* how many characters of out have reached standard output
  bad,            \* std::cout's badbit
  device,         \* environment: whether standard output still takes writes
  rect,           \* one WindowRect object
  ncalls,         \* history: per thread, calls returned
  owner,          \* history: the insertions out is made of: thread and length
  calls,          \* history: the calls started, in call order: caller and argument
  entry,          \* history: per thread, standard output when its current call started
  lastOp,         \* history: the last operation on rect
  lastArgs        \* history: the values that operation was given

vars == <<pc, platform_name, callerText, out, written, bad, device, rect,
          ncalls, owner, calls, entry, lastOp, lastArgs>>

streamVars == <<out, written, bad, owner>>
rectVars == <<rect, lastOp, lastArgs>>

-----------------------------------------------------------------------------
(* Bounds *)

\* Longest platform name a caller passes.
MaxLen == 1
\* Calls one thread makes.
MaxCalls == 2

-----------------------------------------------------------------------------
(* Characters and texts *)

\* std::endl's character, os.widen('\n').
NL == "\n"

Alphabet == {"a", NL}

RECURSIVE TextsOfLen(_)
TextsOfLen(n) ==
  IF n = 0 THEN {<<>>}
  ELSE {Append(s, c) : s \in TextsOfLen(n - 1), c \in Alphabet}

\* Every NUL-terminated text up to MaxLen characters, the empty one included.
Texts == UNION {TextsOfLen(n) : n \in 0..MaxLen}

\* The null pointer.  A non-null pointer is the address of a caller's text.
Null == "nullptr"

\* Variant: the literal without its trailing space.
Prefix_NoSpace ==
  <<"I", "n", "i", "t", "i", "a", "l", "i", "z", "i", "n", "g", " ",
    "w", "i", "n", "d", "o", "w", " ",
    "c", "o", "n", "t", "r", "o", "l", "l", "e", "r", " ",
    "f", "o", "r", " ",
    "p", "l", "a", "t", "f", "o", "r", "m", ":">>

\* The string literal of line 8, "Initializing window controller for platform: ".
Prefix ==
  <<"I", "n", "i", "t", "i", "a", "l", "i", "z", "i", "n", "g", " ",
    "w", "i", "n", "d", "o", "w", " ",
    "c", "o", "n", "t", "r", "o", "l", "l", "e", "r", " ",
    "f", "o", "r", " ",
    "p", "l", "a", "t", "f", "o", "r", "m", ":", " ">>

-----------------------------------------------------------------------------
(* Threads and the caller's memory *)

Main == "main"
Other == "other"
Threads == {Main, Other}

\* A caller's text lives at the address named by its thread.
AddressOf(t) == t

\* What a caller passes: the null pointer, or a pointer to a text of its own.
NullArg == [null |-> TRUE, text |-> <<>>]
TextArg(s) == [null |-> FALSE, text |-> s]
Args == {TextArg(s) : s \in Texts} \cup {NullArg}

\* What a non-null platform_name points to.
Deref(p) == callerText[p]

\* Standard output: the characters that reached the device.
Dev == SubSeq(out, 1, written)

\* A crash ends the process, all threads with it.
Alive == \A t \in Threads : pc[t] # "crashed"

-----------------------------------------------------------------------------
(* WindowRect *)

\* The range of int (32 bits).
INT_MAX == 2147483647
INT_MIN == -INT_MAX - 1

\* Sample of the int range: both ends, zero, and a small negative value.
IntVals == {INT_MIN, -1, 0, INT_MAX}

Fields == {"x", "y", "width", "height"}

\* Variant: width and height declared in the other order.
WindowRect_Swapped(x, y, w, h) == [x |-> x, y |-> y, width |-> h, height |-> w]

\* struct WindowRect { int x; int y; int width; int height; };
\* aggregate initialisation WindowRect{x, y, w, h} fills the fields in
\* declaration order.
WindowRect(x, y, w, h) == [x |-> x, y |-> y, width |-> w, height |-> h]

AllRects == {WindowRect(a, b, c, d) : a \in IntVals, b \in IntVals, c \in IntVals, d \in IntVals}

\* Variant: a setter that refuses a negative size.
AssignField_Clamped(r, f, v) ==
  [r EXCEPT ![f] = IF f \in {"width", "height"} /\ v < 0 THEN 0 ELSE v]

\* r.f = v: a plain member assignment, nothing else runs.
AssignField(r, f, v) == [r EXCEPT ![f] = v]

-----------------------------------------------------------------------------
(* std::cout *)

\* One write of the pending characters of s to the device, as one step.  A
\* device that takes writes takes them all; on one that has failed the write
\* fails, nothing more reaches standard output, and the stream sets badbit.
DeviceWrite(s) ==
  IF device = "ok"
  THEN /\ written' = Len(s)
       /\ bad' = bad
  ELSE /\ written' = written
       /\ bad' = TRUE

\* Variant: an insertion that clears the error state and tries again.
StreamInsert_Clearing(t, frag) ==
  IF frag = <<>>
  THEN UNCHANGED streamVars
  ELSE /\ out' = out \o frag
       /\ owner' = Append(owner, [by |-> t, len |-> Len(frag)])
       /\ \/ written' = written /\ bad' = FALSE
          \/ DeviceWrite(out \o frag)

\* operator<< on std::cout for the characters frag, by thread t.  A stream
\* with badbit set takes nothing (the sentry fails).  Otherwise the characters
\* are accepted; they stay buffered or are written through.
StreamInsert(t, frag) ==
  IF bad \/ frag = <<>>
  THEN UNCHANGED streamVars
  ELSE /\ out' = out \o frag
       /\ owner' = Append(owner, [by |-> t, len |-> Len(frag)])
       /\ \/ UNCHANGED <<written, bad>>
          \/ DeviceWrite(out \o frag)

\* Variant: a flush that is tried again until the device takes the write.
StreamFlush_Retrying ==
  IF bad \/ written = Len(out)
  THEN UNCHANGED streamVars
  ELSE /\ device = "ok"
       /\ UNCHANGED <<out, owner>>
       /\ DeviceWrite(out)

\* os.flush(): a stream with badbit set does nothing; otherwise everything
\* pending is written.
StreamFlush ==
  IF bad \/ written = Len(out)
  THEN UNCHANGED streamVars
  ELSE /\ UNCHANGED <<out, owner>>
       /\ DeviceWrite(out)

-----------------------------------------------------------------------------
(* log_initialize *)

\* Line 7: the caller passes a (text at its own address, or the null pointer).
Call(t, a) ==
  /\ Alive
  /\ pc[t] = "idle"
  /\ ncalls[t] < MaxCalls
  /\ pc' = [pc EXCEPT ![t] = "L8_prefix"]
  /\ platform_name' = [platform_name EXCEPT ![t] = IF a.null THEN Null ELSE AddressOf(t)]
  /\ callerText' = IF a.null THEN callerText ELSE [callerText EXCEPT ![t] = a.text]
  /\ calls' = Append(calls, [by |-> t, null |-> a.null, text |-> a.text])
  /\ entry' = [entry EXCEPT ![t] = Dev]
  /\ UNCHANGED <<streamVars, device, rectVars, ncalls>>

\* Variant: a null check at the top of the function, returning early.
InsertPrefix_Guarded(t) ==
  /\ Alive
  /\ pc[t] = "L8_prefix"
  /\ IF platform_name[t] = Null
     THEN /\ UNCHANGED streamVars
          /\ pc' = [pc EXCEPT ![t] = "idle"]
          /\ ncalls' = [ncalls EXCEPT ![t] = @ + 1]
     ELSE /\ StreamInsert(t, Prefix)
          /\ pc' = [pc EXCEPT ![t] = "L8_name"]
          /\ UNCHANGED ncalls
  /\ UNCHANGED <<platform_name, callerText, device, rectVars, calls, entry>>

\* Line 8: std::cout << "Initializing window controller for platform: "
InsertPrefix(t) ==
  /\ Alive
  /\ pc[t] = "L8_prefix"
  /\ StreamInsert(t, Prefix)
  /\ pc' = [pc EXCEPT ![t] = "L8_name"]
  /\ UNCHANGED <<platform_name, callerText, device, rectVars, ncalls, calls, entry>>

\* Variant: the name is consumed while it is printed (the caller's text is
\* written to through a non-const pointer).
InsertName_Clobbers(t) ==
  /\ Alive
  /\ pc[t] = "L8_name"
  /\ IF platform_name[t] = Null
     THEN \/ /\ bad' = TRUE
             /\ UNCHANGED <<out, written, owner>>
             /\ pc' = [pc EXCEPT ![t] = "L8_put"]
             /\ UNCHANGED callerText
          \/ /\ UNCHANGED <<streamVars, callerText>>
             /\ pc' = [pc EXCEPT ![t] = "crashed"]
     ELSE /\ StreamInsert(t, Deref(platform_name[t]))
          /\ pc' = [pc EXCEPT ![t] = "L8_put"]
          /\ callerText' = [callerText EXCEPT ![platform_name[t]] = <<>>]
  /\ UNCHANGED <<platform_name, device, rectVars, ncalls, calls, entry>>

\* Line 8: << platform_name.  The code passes the pointer on as it got it.
\* Inserting a null const char* is undefined: the builds either set badbit
\* and go on, or read through the pointer and crash.
InsertName(t) ==
  /\ Alive
  /\ pc[t] = "L8_name"
  /\ IF platform_name[t] = Null
     THEN \/ /\ bad' = TRUE
             /\ UNCHANGED <<out, written, owner>>
             /\ pc' = [pc EXCEPT ![t] = "L8_put"]
          \/ /\ UNCHANGED streamVars
             /\ pc' = [pc EXCEPT ![t] = "crashed"]
     ELSE /\ StreamInsert(t, Deref(platform_name[t]))
          /\ pc' = [pc EXCEPT ![t] = "L8_put"]
  /\ UNCHANGED <<platform_name, callerText, device, rectVars, ncalls, calls, entry>>

\* Variant: the line terminator is left out.
Put_NoTerminator(t) ==
  /\ Alive
  /\ pc[t] = "L8_put"
  /\ pc' = [pc EXCEPT ![t] = "L8_flush"]
  /\ UNCHANGED <<streamVars, platform_name, callerText, device, rectVars, ncalls, calls, entry>>

\* Line 8: << std::endl, first half: os.put('\n').
Put(t) ==
  /\ Alive
  /\ pc[t] = "L8_put"
  /\ StreamInsert(t, <<NL>>)
  /\ pc' = [pc EXCEPT ![t] = "L8_flush"]
  /\ UNCHANGED <<platform_name, callerText, device, rectVars, ncalls, calls, entry>>

\* Variant: '\n' in place of std::endl, so the function returns unflushed.
Flush_NoFlush(t) ==
  /\ Alive
  /\ pc[t] = "L8_flush"
  /\ pc' = [pc EXCEPT ![t] = "idle"]
  /\ ncalls' = [ncalls EXCEPT ![t] = @ + 1]
  /\ UNCHANGED <<streamVars, platform_name, callerText, device, rectVars, calls, entry>>

\* Line 8: << std::endl, second half: os.flush(); then line 9, the return.
\* The function has no return value and reads no stream state.
Flush(t) ==
  /\ Alive
  /\ pc[t] = "L8_flush"
  /\ StreamFlush
  /\ pc' = [pc EXCEPT ![t] = "idle"]
  /\ ncalls' = [ncalls EXCEPT ![t] = @ + 1]
  /\ UNCHANGED <<platform_name, callerText, device, rectVars, calls, entry>>

\* A step of thread t inside log_initialize.
log_initialize(t) == InsertPrefix(t) \/ InsertName(t) \/ Put(t) \/ Flush(t)

\* Environment: standard output stops taking writes (a full disk, a closed
\* descriptor).
DeviceBreaks ==
  /\ Alive
  /\ device = "ok"
  /\ device' = "failing"
  /\ UNCHANGED <<pc, platform_name, callerText, streamVars, rectVars, ncalls, calls, entry>>

-----------------------------------------------------------------------------
(* Operations on a WindowRect *)

logVars == <<pc, platform_name, callerText, out, written, bad, device,
             ncalls, owner, calls, entry>>

\* WindowRect r{x, y, w, h};
Construct(x, y, w, h) ==
  /\ rect' = WindowRect(x, y, w, h)
  /\ lastOp' = "construct"
  /\ lastArgs' = <<x, y, w, h>>
  /\ UNCHANGED logVars

\* r.f = v;
Assign(f, v) ==
  /\ rect' = AssignField(rect, f, v)
  /\ lastOp' = f
  /\ lastArgs' = <<v>>
  /\ UNCHANGED logVars

-----------------------------------------------------------------------------
(* Specifications *)

InitLog ==
  /\ pc = [t \in Threads |-> "idle"]
  /\ platform_name = [t \in Threads |-> Null]
  /\ callerText = [t \in Threads |-> <<>>]
  /\ out = <<>>
  /\ written = 0
  /\ bad = FALSE
  /\ device = "ok"
  /\ ncalls = [t \in Threads |-> 0]
  /\ owner = <<>>
  /\ calls = <<>>
  /\ entry = [t \in Threads |-> <<>>]
  /\ lastOp = "none"
  /\ lastArgs = <<>>

\* A single-threaded program: Main calls log_initialize again and again, with
\* a WindowRect already in existence.
Init ==
  /\ InitLog
  /\ rect \in {WindowRect(0, 0, 0, 0), WindowRect(INT_MIN, -1, 0, INT_MAX)}

Next ==
  \/ \E a \in Args : Call(Main, a)
  \/ log_initialize(Main)
  \/ DeviceBreaks

Spec == Init /\ [][Next]_vars

\* A thread inside log_initialize keeps running: each stream operation is a
\* blocking call that comes back.
FairSpec == Spec /\ WF_vars(log_initialize(Main))

\* Two threads call log_initialize once each, with texts P and Q, on a
\* device that works; nothing orders the two calls.
NextConc ==
  \E t \in Threads :
    \/ \E s \in Texts : ncalls[t] = 0 /\ Call(t, TextArg(s))
    \/ log_initialize(t)

InitConc ==
  /\ InitLog
  /\ rect = WindowRect(0, 0, 0, 0)

ConcSpec == InitConc /\ [][NextConc]_vars

\* A single-threaded program that builds and assigns a WindowRect, calling
\* log_initialize("") in between.  A WindowRect defined without an
\* initialiser starts with whatever values its storage holds.
InitRect ==
  /\ InitLog
  /\ rect \in AllRects

NextRect ==
  \/ /\ pc[Main] = "idle"
     /\ \E x \in IntVals, y \in IntVals, w \in IntVals, h \in IntVals : Construct(x, y, w, h)
  \/ /\ pc[Main] = "idle"
     /\ \E f \in Fields, v \in IntVals : Assign(f, v)
  \/ Call(Main, TextArg(<<>>))
  \/ log_initialize(Main)

RectSpec == InitRect /\ [][NextRect]_vars

-----------------------------------------------------------------------------
(* What the properties below speak of *)

\* The characters one call inserts for the text s.
Line(s) == Prefix \o s \o <<NL>>

\* Line terminators in s, which is the number of lines s ends.
CountNL(s) == Cardinality({i \in 1..Len(s) : s[i] = NL})

IsPrefix(s, u) == Len(s) <= Len(u) /\ SubSeq(u, 1, Len(s)) = s

\* The calls thread t started, in order, and the latest of them.
CallsBy(t) == SelectSeq(calls, LAMBDA c : c.by = t)
LastCall(t) == CallsBy(t)[Len(CallsBy(t))]

\* The calls of t that have returned.
Returned(t) ==
  IF pc[t] = "idle" THEN CallsBy(t) ELSE SubSeq(CallsBy(t), 1, Len(CallsBy(t)) - 1)

NoNullCall == \A i \in 1..Len(calls) : ~calls[i].null

RECURSIVE Lines(_)
Lines(cs) == IF cs = <<>> THEN <<>> ELSE Line(Head(cs).text) \o Lines(Tail(cs))

\* Line breaks inside the texts of the calls cs.
RECURSIVE BreaksIn(_)
BreaksIn(cs) == IF cs = <<>> THEN 0 ELSE CountNL(Head(cs).text) + BreaksIn(Tail(cs))

\* What the call thread t is in has inserted so far, on a working stream.
Partial(t) ==
  CASE pc[t] = "L8_name" -> Prefix
    [] pc[t] = "L8_put" -> Prefix \o LastCall(t).text
    [] pc[t] = "L8_flush" -> Line(LastCall(t).text)
    [] OTHER -> <<>>

\* What the latest call of t added to standard output.
Appended(t) == SubSeq(Dev, Len(entry[t]) + 1, Len(Dev))

\* t's latest call had a text argument and has returned, the stream still good.
ReturnedGood(t) ==
  /\ pc[t] = "idle"
  /\ ncalls[t] > 0
  /\ ~bad
  /\ ~LastCall(t).null

\* The characters of out that thread t inserted, in order: the insertions
\* from the i-th on, the i-th starting at out[from].
RECURSIVE InsertedBy(_, _, _)
InsertedBy(t, i, from) ==
  IF i > Len(owner) THEN <<>>
  ELSE (IF owner[i].by = t THEN SubSeq(out, from, from + owner[i].len - 1) ELSE <<>>)
         \o InsertedBy(t, i + 1, from + owner[i].len)

RECURSIVE InsertedLen(_)
InsertedLen(i) == IF i > Len(owner) THEN 0 ELSE owner[i].len + InsertedLen(i + 1)

\* The statement after each position of log_initialize.
NextStmt(l) ==
  CASE l = "L8_prefix" -> "L8_name"
    [] l = "L8_name" -> "L8_put"
    [] l = "L8_put" -> "L8_flush"
    [] l = "L8_flush" -> "idle"
    [] OTHER -> l

InCall(t) == pc[t] \in {"L8_prefix", "L8_name", "L8_put", "L8_flush"}

-----------------------------------------------------------------------------
(* C1 *)

\* The prefix as the specification words it,
\* "Initializing window controller for platform: ", trailing space included.
SpecifiedPrefix ==
  <<"I", "n", "i", "t", "i", "a", "l", "i", "z", "i", "n", "g", " ">>
    \o <<"w", "i", "n", "d", "o", "w", " ">>
    \o <<"c", "o", "n", "t", "r", "o", "l", "l", "e", "r", " ">>
    \o <<"f", "o", "r", " ">>
    \o <<"p", "l", "a", "t", "f", "o", "r", "m", ":", " ">>

\* C1 as stated: on a working stream, one call log_initialize(P), for any text
\* P (empty and line-break texts included), appends to standard output exactly
\* one line: the prefix, P, one line terminator, nothing else.
C1_OneLineForAnyText ==
  ReturnedGood(Main) =>
    /\ Dev = entry[Main] \o SpecifiedPrefix \o LastCall(Main).text \o <<NL>>
    /\ CountNL(Appended(Main)) = 1

\* C1 amended: on a working stream, one call log_initialize(P) appends to
\* standard output exactly the prefix, P verbatim and one line terminator,
\* nothing else; that is one line when P holds no line break, and one more
\* line for each line break in P.
C1_AppendsPrefixTextTerminator ==
  ReturnedGood(Main) =>
    /\ Dev = entry[Main] \o SpecifiedPrefix \o LastCall(Main).text \o <<NL>>
    /\ CountNL(Appended(Main)) = 1 + CountNL(LastCall(Main).text)

\* A call with a line-break text has returned on a working stream.
C1_Witness ==
  /\ ReturnedGood(Main)
  /\ LastCall(Main).text = <<NL>>

-----------------------------------------------------------------------------
(* C2 *)

\* C2: every call started with a text argument (the empty text included)
\* returns to its caller, whatever state earlier calls left the stream in, and
\* no such call crashes.
C2_TextCallReturns ==
  /\ (pc[Main] = "L8_prefix" /\ platform_name[Main] # Null) ~> (pc[Main] = "idle")
  /\ [](pc[Main] = "crashed" => platform_name[Main] = Null)

\* A call with the empty text, started on a stream that had already failed,
\* has returned.
C2_Witness ==
  /\ pc[Main] = "idle"
  /\ ncalls[Main] = 2
  /\ NoNullCall
  /\ calls[2].text = <<>>
  /\ bad
  /\ Len(out) <= Len(Line(calls[1].text))

-----------------------------------------------------------------------------
(* C3 *)

\* C3: a WindowRect constructed with (x, y, w, h) reads back x, y, width,
\* height equal to those four values in that order, and goes on doing so
\* (through calls of log_initialize too) until a field is assigned.
C3_RoundTrip ==
  lastOp = "construct" => <<rect.x, rect.y, rect.width, rect.height>> = lastArgs

\* A WindowRect built from four different values, read after a later call of
\* log_initialize has returned.
C3_Witness ==
  /\ lastOp = "construct"
  /\ lastArgs = <<INT_MIN, -1, 0, INT_MAX>>
  /\ pc[Main] = "idle"
  /\ ncalls[Main] > 0

-----------------------------------------------------------------------------
(* C4 *)

\* C4: log_initialize signals no error.  With a text argument, a step taken
\* while the stream has failed goes on to the next statement and leaves the
\* stream as it is (nothing raised, nothing written again, the failure not
\* cleared); a step in which a write fails goes on to the next statement too;
\* and no step ever clears the failure.
C4_NoErrorSignalled ==
  [][/\ bad => bad'
     /\ (/\ InCall(Main)
         /\ platform_name[Main] # Null
         /\ pc'[Main] # pc[Main]
         /\ bad \/ bad')
        => /\ pc'[Main] = NextStmt(pc[Main])
           /\ bad => (out' = out /\ written' = written)
           /\ ~bad => written' < Len(out')]_vars

\* Two text calls have returned; the write failed in the first, and the second
\* ran from start to end on the failed stream.
C4_Witness ==
  /\ pc[Main] = "idle"
  /\ ncalls[Main] = 2
  /\ NoNullCall
  /\ bad
  /\ written < Len(out)
  /\ Len(out) <= Len(Line(calls[1].text))
  /\ calls[2].text = <<"a">>

-----------------------------------------------------------------------------
(* C5 *)

BothReturned == \A t \in Threads : pc[t] = "idle" /\ ncalls[t] = 1

\* C5 as stated: two threads calling concurrently with P and Q produce two
\* whole lines, prefix+P and prefix+Q in either order, never a line mixing
\* fragments of the two calls.
C5_WholeLines ==
  BothReturned =>
    \/ out = Line(callerText[Main]) \o Line(callerText[Other])
    \/ out = Line(callerText[Other]) \o Line(callerText[Main])

\* C5 amended: each call makes three separate insertions (prefix, name, line
\* terminator) into the shared stream, with no locking.  When two threads call
\* concurrently with P and Q, the output holds the characters of both calls
\* and no others, and the characters of each call in that call's own order
\* (prefix, text, terminator); fragments of the two calls may interleave.
C5_OwnOrderKept ==
  /\ InsertedLen(1) = Len(out)
  /\ \A t \in Threads : InsertedBy(t, 1, 1) = Lines(Returned(t)) \o Partial(t)
  /\ BothReturned => written = Len(out)

\* Both calls have returned and the output is neither order of two whole lines.
C5_Witness ==
  /\ BothReturned
  /\ out # Line(callerText[Main]) \o Line(callerText[Other])
  /\ out # Line(callerText[Other]) \o Line(callerText[Main])

-----------------------------------------------------------------------------
(* C6 *)

\* C6: log_initialize validates nothing.  Whatever it was passed, the null
\* pointer included, is still its platform_name when the name is inserted: the
\* first statement always leads to the insertion of the name, never to a
\* return.  An empty text is not replaced: its line is the prefix followed
\* directly by the line terminator.
C6_NoValidation ==
  /\ [][/\ (pc[Main] = "L8_prefix" /\ pc'[Main] # pc[Main]) => pc'[Main] = "L8_name"
        /\ InCall(Main) => platform_name'[Main] = platform_name[Main]]_vars
  /\ [](InCall(Main) =>
          /\ LastCall(Main).null => platform_name[Main] = Null
          /\ ~LastCall(Main).null =>
               /\ platform_name[Main] = AddressOf(Main)
               /\ Deref(platform_name[Main]) = LastCall(Main).text)
  /\ []((ReturnedGood(Main) /\ LastCall(Main).text = <<>>) =>
          Appended(Main) = Prefix \o <<NL>>)

\* A null platform_name stands before the stream insertion.
C6_Witness ==
  /\ pc[Main] = "L8_name"
  /\ platform_name[Main] = Null

-----------------------------------------------------------------------------
(* C7 *)

\* C7: log_initialize changes the output stream and nothing else: while a call
\* runs, the caller's texts, the parameter and the WindowRect stay as they
\* were; and it keeps nothing from call to call: what a call adds to standard
\* output is the line of its own argument, whatever the calls before it were.
C7_OnlyTheStream ==
  /\ [][InCall(Main) => /\ callerText' = callerText
                        /\ platform_name' = platform_name
                        /\ rect' = rect]_vars
  /\ [](ReturnedGood(Main) =>
          /\ callerText[Main] = LastCall(Main).text
          /\ Appended(Main) = Line(LastCall(Main).text))

\* A second call, with another text than the first, has returned, with a
\* WindowRect of four different values in existence.
C7_Witness ==
  /\ ReturnedGood(Main)
  /\ ncalls[Main] = 2
  /\ calls[1].text # calls[2].text
  /\ rect = WindowRect(INT_MIN, -1, 0, INT_MAX)

-----------------------------------------------------------------------------
(* C8 *)

\* C8: the four fields are independent and unconstrained: an assignment to
\* one field stores the value as given (zero and negative sizes too) and
\* leaves the other three as they were.
C8_FieldsIndependent ==
  [][\A f \in Fields :
       lastOp' = f =>
         /\ rect'[f] = lastArgs'[1]
         /\ \A g \in Fields \ {f} : rect'[g] = rect[g]]_vars

\* A negative width was assigned beside a zero height and a position at the
\* ends of the range.
C8_Witness ==
  /\ lastOp = "width"
  /\ rect = WindowRect(INT_MAX, INT_MIN, -1, 0)

-----------------------------------------------------------------------------
(* C9 *)

\* C9 as stated: after n sequential calls on a working stream, standard output
\* holds exactly n lines, the i-th the prefix followed by Pi.
C9_ExactlyNLines ==
  (pc[Main] = "idle" /\ ~bad /\ NoNullCall) =>
    /\ Dev = Lines(calls)
    /\ CountNL(Dev) = Len(calls)

\* C9 amended: after n sequential calls with texts P1..Pn on a working stream,
\* standard output holds exactly the n records prefix, Pi, line terminator, in
\* call order (n lines when no Pi holds a line break, one more for each line
\* break); during a call the stream holds the earlier records and then the
\* part of this call's record inserted so far; all of it has reached standard
\* output when the call returns; and standard output only ever grows at its
\* end.
C9_RecordsInCallOrder ==
  /\ []((~bad /\ NoNullCall) =>
          /\ out = Lines(Returned(Main)) \o Partial(Main)
          /\ pc[Main] = "idle" =>
               /\ written = Len(out)
               /\ Dev = Lines(calls)
               /\ CountNL(Dev) = Len(calls) + BreaksIn(calls))
  /\ [][IsPrefix(Dev, Dev')]_vars

\* Two calls with different texts have returned on a working stream.
C9_Witness ==
  /\ pc[Main] = "idle"
  /\ ~bad
  /\ NoNullCall
  /\ ncalls[Main] = 2
  /\ calls[1].text # calls[2].text

====
